---- MODULE Spec2Model ----
(***************************************************************************)
(* The Fuzz pass of src/passes/Fuzz.cpp as a state machine.                *)
(*                                                                         *)
(* The pass walks every function of a module; at each visited node it may  *)
(* replace the node by make(curr->type).  make and the node creators it    *)
(* reaches call each other recursively, so the model keeps an explicit     *)
(* call stack (frames); the frame on top is the call that is executing.    *)
(* One action is one straight-line segment of one function, from its entry *)
(* or from the return of a callee up to the next call or return.           *)
(***************************************************************************)
EXTENDS Integers, Sequences, FiniteSets, TLC

(***************************************************************************)
(* Bounds of the exploration.                                              *)
(***************************************************************************)
\* largest value limit is constructed with (the source constructs it with LIMIT)
MaxBudget == 3
\* how many values the generator may hand out in one run
MaxDraws == 6
\* how many calls may be active at once
MaxDepth == 5
\* how many functions the module's walk covers
MaxFuncs == 2

(***************************************************************************)
(* Program constants.                                                      *)
(***************************************************************************)
\* static const int LIMIT = 1000;
LIMIT == 1000
\* chance(5) in visitExpression and in make
Percentage == 5

\* WasmType
Types == {"i32", "i64", "f32", "f64", "none", "unreachable"}

\* Expression::Id in declaration order, as the cases of makeInt32 list it;
\* ExpressionIds[k + 1] is the id whose value is k
ExpressionIds ==
  << "InvalidId", "BlockId", "IfId", "LoopId", "BreakId", "SwitchId",
     "CallId", "CallImportId", "CallIndirectId", "GetLocalId", "SetLocalId",
     "GetGlobalId", "SetGlobalId", "LoadId", "StoreId", "ConstId", "UnaryId",
     "BinaryId", "SelectId", "DropId", "ReturnId", "HostId", "NopId",
     "UnreachableId" >>

\* Expression::NumExpressionIds
NumExpressionIds == Len(ExpressionIds)

\* values of noise() the exploration draws; they cover chance true and false
\* and, for every bound the pass uses, a draw that is and one that is not a
\* multiple of the bound
Draws == {0, 5, 7, 9, 10, 11, 14, 24, 100}

(***************************************************************************)
(* Names.  Name() is the empty name; "fuzz$" + from_string(n) is kept as   *)
(* the pair of the prefix and the number, so distinct numbers are distinct *)
(* names and no other label equals one by accident.                        *)
(***************************************************************************)
NoName == << >>

\* a name given by its text
Name(text) == << text >>

\* Name(std::string("fuzz$") + std::from_string(n))
FuzzName(n) == << "fuzz$", n >>

\* Name::is()
IsName(name) == name # NoName

\* labels a function body may hold before the pass runs on it
ExistingLabels == {FuzzName(0)}

(***************************************************************************)
(* Expression nodes, kept as what the pass reads or decides of them: the   *)
(* id, the static type, the name (a scope's label, a break's target, a     *)
(* call's callee) and the static types of the operands.                    *)
(***************************************************************************)
Node(id, type, name, kids) ==
  [id |-> id, type |-> type, name |-> name, kids |-> kids]

\* a null Expression*
Null == Node("null", "null", NoName, << >>)

\* builder.makeUnreachable()
Unreachable == Node("UnreachableId", "unreachable", NoName, << >>)

\* a node of the function body as the walker found it
Original(type) == Node("Original", type, NoName, << >>)

\* what a caller reads when the callee gave it no Expression: a pointer whose
\* target is not a node of any type the caller asked for
Indeterminate == Node("Indeterminate", "indeterminate", NoName, << >>)

(***************************************************************************)
(* The host IR the pass reads: functions, imports and the table.           *)
(***************************************************************************)
Func(name, params, result, type) ==
  [name |-> Name(name), params |-> params, result |-> result, type |-> type]

Import(kind, name, params, result) ==
  [kind |-> kind, name |-> Name(name), params |-> params, result |-> result]

\* a module with nothing to call and no table
ModuleEmpty ==
  [functions |-> << >>, imports |-> << >>,
   table |-> [exists |-> FALSE, segments |-> << >>]]

\* a module with callees of every kind for i64 and f32 and none for f64 or
\* i32; its table also holds a function that has no function type
ModuleCalls ==
  [functions |-> << Func("f", << "i64" >>, "i64", Name("sig")),
                    Func("g", << >>, "i64", NoName),
                    Func("h", << >>, "f32", Name("sig0")) >>,
   imports |-> << Import("Global", "mem", << >>, "i64"),
                  Import("Function", "imp", << "f32" >>, "i64") >>,
   table |-> [exists |-> TRUE,
              segments |-> << << Name("g"), Name("h") >>, << Name("f") >> >>]]

Modules == {ModuleEmpty, ModuleCalls}

VARIABLES
  module,            \* getModule()
  budget,            \* the value limit was constructed with
  seed,              \* the generator as constructed: noise(42)
  noise,             \* std::mt19937 noise: the values handed out and those to come
  limit,             \* Index limit, as its 32-bit pattern read in two's complement
  names,             \* names.names
  nextName,          \* Index nextName
  controlFlowStack,  \* the walker's stack of enclosing scopes, innermost last
  walk,              \* where doWalkFunction stands
  walked,            \* how many functions doWalkFunction has finished
  bodyLabels,        \* the labels func->body held when names.scan read it
  issued,            \* the names getNewName returned for the current function
  curr,              \* the node the walker is at (what replaceCurrent writes)
  orig,              \* the static type the node had when it was visited
  frames,            \* the active calls, outermost first
  ret,               \* the value the last return handed to its caller
  first              \* the output of an earlier run of the pass, when there was one

vars ==
  << module, budget, seed, noise, limit, names, nextName, controlFlowStack,
     walk, walked, bodyLabels, issued, curr, orig, frames, ret, first >>

\* what no step of a run changes
fixed == << module, budget, seed, first >>

(***************************************************************************)
(* The random source.  The generator is a deterministic sequence fixed by  *)
(* its seed; its state is how many values it has handed out (count) and    *)
(* the values it hands out next.  Either these are written out (ahead), or *)
(* the sequence is left open (free) and the next value is any of Draws.    *)
(***************************************************************************)
\* a generator whose sequence is left open
AnyGenerator == [count |-> 0, ahead |-> << >>, free |-> TRUE]

\* a generator whose sequence is written out
Generator(ahead) == [count |-> 0, ahead |-> ahead, free |-> FALSE]

\* the values noise() can return next
Drawn == IF noise.free THEN Draws ELSE {Head(noise.ahead)}

\* the generator after noise()
Advance(n) ==
  [n EXCEPT !.count = @ + 1,
            !.ahead = IF n.free THEN << >> ELSE Tail(@)]

\* the run may draw once more
CanDraw == noise.count < MaxDraws /\ (noise.free \/ noise.ahead # << >>)

\* the chance is taken whatever the generator hands out
chanceAlways(d, percentage) == TRUE

\* bool chance(int percentage) { return (noise() % 100) < percentage; }
chance(d, percentage) == (d % 100) < percentage

\* bool pick(int max) { return noise() % max; }
\* the remainder is converted to the bool the function returns, and a caller
\* that uses the result as a number reads 0 or 1
pick(d, max) == IF (d % max) # 0 THEN 1 ELSE 0

(***************************************************************************)
(* The budget.  limit is an unsigned 32-bit counter; the model keeps its   *)
(* bit pattern as the two's-complement integer of the same bits, so that   *)
(* --limit is a subtraction of one that wraps at the ends of the range:    *)
(* 0 goes to the pattern of 2^32 - 1, written -1.                          *)
(***************************************************************************)
MinPattern == -2147483647 - 1

MaxPattern == 2147483647

\* limit is compared and left as it was
DecrementForgotten(l) == l

\* --limit
Decrement(l) == IF l = MinPattern THEN MaxPattern ELSE l - 1

\* the unsigned order of two patterns
UnsignedLess(a, b) == IF (a < 0) = (b < 0) THEN a < b ELSE b < 0

(***************************************************************************)
(* The name registry.                                                      *)
(***************************************************************************)
\* names.scan(func->body): every label of the body is recorded
scan(registry, labels) == registry \cup labels

\* the candidate is taken whether the registry holds it or not
IsUnusedUnchecked(name, registry) == TRUE

\* names.names.count(name) == 0
IsUnused(name, registry) == name \notin registry

\* the name is not recorded
insertNothing(registry, name) == registry

\* names.names.insert(name)
insert(registry, name) == registry \cup {name}

\* getNewName(): the first candidate from nextName on that is not in the
\* registry; it is inserted, and nextName ends one past the candidate taken
RECURSIVE getNewName(_, _)
getNewName(next, registry) ==
  IF IsUnused(FuzzName(next), registry)
    THEN [name |-> FuzzName(next), nextName |-> next + 1,
          names |-> insert(registry, FuzzName(next))]
    ELSE getNewName(next + 1, registry)

(***************************************************************************)
(* The control-flow stack and the choice of a break target.                *)
(***************************************************************************)
Scope(kind, name, type) == [kind |-> kind, name |-> name, type |-> type]

\* the scope is put below the scopes that enclose it
push_below(stack, scope) == << scope >> \o stack

\* controlFlowStack.push_back(scope)
push_back(stack, scope) == Append(stack, scope)

\* the scope is left on the stack
pop_back_forgotten(stack) == stack

\* controlFlowStack.pop_back()
pop_back(stack) == SubSeq(stack, 1, Len(stack) - 1)

\* every named block is collected, whatever its type
BreakBlocksOfAnyType(value, stack) ==
  SelectSeq(stack, LAMBDA parent :
    parent.kind = "Block" /\ IsName(parent.name))

\* the blocks getBreakTarget collects
BreakBlocks(value, stack) ==
  SelectSeq(stack, LAMBDA parent :
    /\ parent.kind = "Block"
    /\ IsName(parent.name)
    /\ (IF value # Null THEN value.type = parent.type ELSE TRUE))

\* the loops getBreakTarget collects
BreakLoops(value, stack) ==
  SelectSeq(stack, LAMBDA parent :
    /\ parent.kind = "Loop"
    /\ IsName(parent.name)
    /\ value = Null)

\* getBreakTarget calls pick whatever it has collected
BreakTargetPicksUnguarded(value, stack) == TRUE

\* whether getBreakTarget gets as far as its call of pick
BreakTargetPicks(value, stack) ==
  ~ (Len(BreakBlocks(value, stack)) = 0 /\ Len(BreakLoops(value, stack)) = 0)

\* getBreakTarget(value), with d the value noise() hands to pick
getBreakTarget(value, stack, d) ==
  LET blocks == BreakBlocks(value, stack)
      loops == BreakLoops(value, stack)
  IN  IF Len(blocks) = 0 /\ Len(loops) = 0
        THEN NoName
        ELSE LET choice == pick(d, Len(blocks) + Len(loops))
             IN  IF choice < Len(blocks)
                   THEN blocks[choice + 1].name
                   ELSE loops[choice - Len(blocks) + 1].name

(***************************************************************************)
(* The candidates of the call constructors.                                *)
(***************************************************************************)
\* every function is collected, whatever its result
CallCandidatesOfAnyResult(m, type) == m.functions

\* makeCall: the functions whose result is the type
CallCandidates(m, type) ==
  SelectSeq(m.functions, LAMBDA func : func.result = type)

\* makeCallImport: the function imports whose result is the type
ImportCandidates(m, type) ==
  SelectSeq(m.imports, LAMBDA import :
    import.kind = "Function" /\ import.result = type)

\* getModule()->getFunction(name)
getFunction(m, name) ==
  m.functions[CHOOSE i \in 1..Len(m.functions) : m.functions[i].name = name]

\* the table's entries, segment after segment
RECURSIVE TableEntries(_)
TableEntries(segments) ==
  IF segments = << >> THEN << >>
  ELSE Head(segments) \o TableEntries(Tail(segments))

\* makeCallIndirect: the table's functions whose result is the type and which
\* have a function type
IndirectCandidates(m, type) ==
  LET entries == TableEntries(m.table.segments)
      found == [i \in 1..Len(entries) |-> getFunction(m, entries[i])]
  IN  SelectSeq(found, LAMBDA func : func.result = type /\ IsName(func.type))

(***************************************************************************)
(* Builder: the nodes the constructors hand back.                          *)
(***************************************************************************)
\* the block is given no type
builderMakeBlockUntyped(name, type, list) == Node("BlockId", "none", name, list)

\* builder.makeBlock() with name, type and list set by makeBlock
builderMakeBlock(name, type, list) == Node("BlockId", type, name, list)

\* builder.makeLoop(name, body)
builderMakeLoop(name, body) == Node("LoopId", body.type, name, << body.type >>)

\* builder.makeIf(condition, ifTrue, ifFalse)
builderMakeIf(condition, ifTrue, ifFalse) ==
  Node("IfId",
       IF ifTrue.type = ifFalse.type THEN ifTrue.type
       ELSE IF ifTrue.type = "unreachable" THEN ifFalse.type
       ELSE IF ifFalse.type = "unreachable" THEN ifTrue.type
       ELSE "none",
       NoName, << condition.type, ifTrue.type, ifFalse.type >>)

\* builder.makeBreak(target, value, condition)
builderMakeBreak(target, value, condition) ==
  Node("BreakId", "unreachable", target, << value.type, condition.type >>)

\* the call is built without its arguments
builderMakeCallBare(name, args, type) == Node("CallId", type, name, << >>)

\* builder.makeCall(func->name, args, type)
builderMakeCall(name, args, type) == Node("CallId", type, name, args)

\* builder.makeCallImport(import->name, args, type)
builderMakeCallImport(name, args, type) == Node("CallImportId", type, name, args)

\* builder.makeCallIndirect(func->type, target, args, type)
builderMakeCallIndirect(fullType, target, args, type) ==
  Node("CallIndirectId", type, fullType, << target.type >> \o args)

(***************************************************************************)
(* The call stack.                                                         *)
(***************************************************************************)
\* the call that is executing
Top == frames[Len(frames)]

\* its callers
Callers == SubSeq(frames, 1, Len(frames) - 1)

\* the executing call is a call of fn that stands at pc
Running(fn, pc) == frames # << >> /\ Top.fn = fn /\ Top.pc = pc

\* return node;
Return(node) ==
  /\ frames' = Callers
  /\ ret' = node

\* the executing call, continuing as caller, calls callee and waits for it
Call(caller, callee) ==
  /\ Len(frames) < MaxDepth
  /\ frames' = Callers \o << caller, callee >>
  /\ ret' = Null

\* return callee(...); the executing call hands back whatever callee returns
Become(callee) ==
  /\ frames' = Callers \o << callee >>
  /\ ret' = Null

\* the executing call goes on in its own body
Continue(frame) ==
  /\ frames' = Callers \o << frame >>
  /\ ret' = Null

\* a call of make(type); start is the budget the call finds
MakeFrame(type) ==
  [fn |-> "make", pc |-> "entry", type |-> type, start |-> limit]

\* a call of a creator that takes no argument or only the type
CreatorFrame(fn, type) == [fn |-> fn, pc |-> "entry", type |-> type]

\* a call of makeBlock(type)
BlockFrame(type) ==
  [fn |-> "makeBlock", pc |-> "entry", type |-> type, name |-> NoName,
   size |-> 0, list |-> << >>]

\* a call of makeLoop(type)
LoopFrame(type) ==
  [fn |-> "makeLoop", pc |-> "entry", type |-> type, name |-> NoName]

\* a call of makeBreak(value, condition)
BreakFrame(value, condition) ==
  [fn |-> "makeBreak", pc |-> "entry", type |-> value.type, value |-> value,
   condition |-> condition]

\* a call of makeCall, makeCallImport or makeCallIndirect
CallFrame(fn, type) ==
  [fn |-> fn, pc |-> "entry", type |-> type, callee |-> NoName,
   params |-> << >>, args |-> << >>]

\* the operands of one call expression, each a call of the creator for its
\* type; C++ leaves the order in which they are evaluated to the compiler
OperandsFrame(id, type, types) ==
  [fn |-> "operands", pc |-> "next", id |-> id, type |-> type,
   types |-> types, pending |-> 1..Len(types), at |-> 0,
   values |-> [i \in 1..Len(types) |-> Null]]

\* the creator make dispatches to for a type
CreatorOf(type) ==
  CASE type = "i32" -> "makeInt32"
    [] type = "i64" -> "makeInt64"
    [] type = "f32" -> "makeFloat32"
    [] type = "f64" -> "makeFloat64"
    [] type = "none" -> "makeNone"
    [] type = "unreachable" -> "makeUnreachable"

(***************************************************************************)
(* The initial state: the pass as constructed, noise(42) and limit(LIMIT), *)
(* for a budget from 1 up to MaxBudget in place of LIMIT, over one of the  *)
(* modules.                                                                *)
(***************************************************************************)
Budgets == 1..(IF MaxBudget < LIMIT THEN MaxBudget ELSE LIMIT)

Init ==
  /\ module \in Modules
  /\ budget \in Budgets
  /\ limit = budget
  /\ seed = AnyGenerator
  /\ noise = seed
  /\ names = {}
  /\ nextName = 0
  /\ controlFlowStack = << >>
  /\ walk = "idle"
  /\ walked = 0
  /\ bodyLabels = {}
  /\ issued = << >>
  /\ curr = Null
  /\ orig = "none"
  /\ frames = << >>
  /\ ret = Null
  /\ first = << >>

(***************************************************************************)
(* The walk.                                                               *)
(***************************************************************************)
\* doWalkFunction, up to walk(func->body): the body's labels are whatever
\* the function holds
DoWalkFunction ==
  /\ walk = "idle"
  /\ walked < MaxFuncs
  /\ \E labels \in SUBSET ExistingLabels :
       /\ names' = scan(names, labels)
       /\ bodyLabels' = labels
  /\ nextName' = 0
  /\ issued' = << >>
  /\ walk' = "entered"
  /\ UNCHANGED << fixed, noise, limit, controlFlowStack, walked,
                  curr, orig, frames, ret >>

\* visitExpression(curr) for the next node of the body, of whatever type it
\* has: if (chance(5)) ... make(curr->type)
VisitExpression ==
  /\ walk \in {"entered", "walking"}
  /\ frames = << >>
  /\ CanDraw
  /\ \E type \in Types, d \in Drawn :
       /\ orig' = type
       /\ curr' = Original(type)
       /\ noise' = Advance(noise)
       /\ IF chance(d, Percentage)
            THEN /\ frames' = << MakeFrame(type) >>
                 /\ walk' = "visiting"
            ELSE /\ frames' = frames
                 /\ walk' = "walking"
  /\ ret' = Null
  /\ UNCHANGED << fixed, limit, names, nextName, controlFlowStack,
                  walked, bodyLabels, issued >>

\* visitExpression, once make has returned: replaceCurrent(make(curr->type))
VisitReplace ==
  /\ walk = "visiting"
  /\ frames = << >>
  /\ curr' = ret
  /\ ret' = Null
  /\ walk' = "walking"
  /\ UNCHANGED << fixed, noise, limit, names, nextName,
                  controlFlowStack, walked, bodyLabels, issued, orig, frames >>

\* doWalkFunction, after walk(func->body): assert(controlFlowStack.size() == 0)
FinishWalk ==
  /\ walk = "walking"
  /\ frames = << >>
  /\ walk' = IF Len(controlFlowStack) = 0 THEN "idle" ELSE "aborted"
  /\ walked' = walked + 1
  /\ UNCHANGED << fixed, noise, limit, names, nextName,
                  controlFlowStack, bodyLabels, issued, curr, orig, frames,
                  ret >>

(***************************************************************************)
(* make.                                                                   *)
(***************************************************************************)
\* make(type), up to the call of the creator for the type
Make ==
  /\ Running("make", "entry")
  /\ limit' = Decrement(limit)
  /\ IF limit' = 0
       THEN /\ Return(Unreachable)
            /\ noise' = noise
       ELSE /\ CanDraw
            /\ noise' = Advance(noise)
            /\ \E d \in Drawn :
                 IF chance(d, Percentage)
                   THEN Return(Unreachable)
                   ELSE Call([Top EXCEPT !.pc = "replace"],
                             CreatorFrame(CreatorOf(Top.type), Top.type))
  /\ UNCHANGED << fixed, names, nextName, controlFlowStack, walk,
                  walked, bodyLabels, issued, curr, orig >>

\* what the caller of make reads when control runs off the end of make: no
\* return statement gave the value, so it is the node replaceCurrent just
\* handed back or a pointer to no node the caller asked for
FallOffEnd(replaced) == {replaced, Indeterminate}

\* make(type), once the creator has returned: replaceCurrent(...); break;
\* and the end of the function
MakeReplace ==
  /\ Running("make", "replace")
  /\ curr' = ret
  /\ \E value \in FallOffEnd(ret) : Return(value)
  /\ UNCHANGED << fixed, noise, limit, names, nextName,
                  controlFlowStack, walk, walked, bodyLabels, issued, orig >>

(***************************************************************************)
(* makeInt32.                                                              *)
(***************************************************************************)
\* the case of makeInt32's switch for an id
Int32Case(id) ==
  CASE id \in {"InvalidId", "SwitchId", "UnreachableId"} -> Return(Unreachable)
    [] id = "BlockId" -> Become(BlockFrame("i32"))
    [] id = "IfId" ->
         Become(OperandsFrame("IfId", "i32", << "i32", "i32", "i32" >>))
    [] id = "LoopId" -> Become(LoopFrame("i32"))
    [] id = "BreakId" ->
         Become(OperandsFrame("BreakId", "i32", << "i32", "i32" >>))
    [] id = "CallId" -> Become(CallFrame("makeCall", "i32"))
    [] id = "CallImportId" -> Become(CallFrame("makeCallImport", "i32"))
    [] id = "CallIndirectId" -> Become(CallFrame("makeCallIndirect", "i32"))
    \* return "get_local"; and the like: a string where a node is expected
    [] OTHER -> Return(Indeterminate)

\* makeInt32()
MakeInt32 ==
  /\ Running("makeInt32", "entry")
  /\ limit' = Decrement(limit)
  /\ IF limit' = 0
       THEN /\ Return(Unreachable)
            /\ noise' = noise
       ELSE /\ CanDraw
            /\ noise' = Advance(noise)
            /\ \E d \in Drawn :
                 Int32Case(ExpressionIds[pick(d, NumExpressionIds) + 1])
  /\ UNCHANGED << fixed, names, nextName, controlFlowStack, walk,
                  walked, bodyLabels, issued, curr, orig >>

(***************************************************************************)
(* The operands of makeIf(...), makeBreak(...): calls of creators, in the  *)
(* order the compiler chose.                                               *)
(***************************************************************************)
\* the next operand to evaluate is any that is still to be evaluated
EvalOperand ==
  /\ Running("operands", "next")
  /\ \E i \in Top.pending :
       Call([Top EXCEPT !.pc = "wait", !.at = i, !.pending = @ \ {i}],
            CreatorFrame(CreatorOf(Top.types[i]), Top.types[i]))
  /\ UNCHANGED << fixed, noise, limit, names, nextName,
                  controlFlowStack, walk, walked, bodyLabels, issued, curr,
                  orig >>

\* an operand has its value; with all of them, the call itself is made
OperandReturn ==
  /\ Running("operands", "wait")
  /\ LET values == [Top.values EXCEPT ![Top.at] = ret]
     IN  IF Top.pending # {}
           THEN Continue([Top EXCEPT !.pc = "next", !.values = values])
           ELSE IF Top.id = "IfId"
             THEN Return(builderMakeIf(values[1], values[2], values[3]))
             ELSE Become(BreakFrame(values[1], values[2]))
  /\ UNCHANGED << fixed, noise, limit, names, nextName,
                  controlFlowStack, walk, walked, bodyLabels, issued, curr,
                  orig >>

(***************************************************************************)
(* makeBlock and makeLoop.                                                 *)
(***************************************************************************)
\* makeBlock(type), up to the first statement of the list
MakeBlock ==
  /\ Running("makeBlock", "entry")
  /\ CanDraw
  /\ noise' = Advance(noise)
  /\ LET new == getNewName(nextName, names)
     IN  /\ names' = new.names
         /\ nextName' = new.nextName
         /\ issued' = Append(issued, new.name)
         /\ controlFlowStack' =
              push_back(controlFlowStack, Scope("Block", new.name, Top.type))
         /\ \E d \in Drawn :
              LET size == pick(d, 5) + 1
                  block == [Top EXCEPT !.name = new.name, !.size = size]
              IN  IF 0 < size - 1
                    THEN Call([block EXCEPT !.pc = "list"],
                              CreatorFrame("makeNone", "none"))
                    ELSE Call([block EXCEPT !.pc = "last"], MakeFrame(Top.type))
  /\ UNCHANGED << fixed, limit, walk, walked, bodyLabels, curr, orig >>

\* makeBlock(type): ret->list[i] = makeNone(); and the next statement
MakeBlockList ==
  /\ Running("makeBlock", "list")
  /\ LET block == [Top EXCEPT !.list = Append(@, ret.type)]
     IN  IF Len(block.list) < block.size - 1
           THEN Call(block, CreatorFrame("makeNone", "none"))
           ELSE Call([block EXCEPT !.pc = "last"], MakeFrame(Top.type))
  /\ UNCHANGED << fixed, noise, limit, names, nextName,
                  controlFlowStack, walk, walked, bodyLabels, issued, curr,
                  orig >>

\* makeBlock(type): ret->list[size - 1] = make(type); pop_back(); return ret;
MakeBlockLast ==
  /\ Running("makeBlock", "last")
  /\ controlFlowStack' = pop_back(controlFlowStack)
  /\ Return(builderMakeBlock(Top.name, Top.type, Append(Top.list, ret.type)))
  /\ UNCHANGED << fixed, noise, limit, names, nextName, walk, walked,
                  bodyLabels, issued, curr, orig >>

\* makeLoop(type), up to the call of make for the body; the scope pushed is
\* the loop that is being made, known by its name
MakeLoop ==
  /\ Running("makeLoop", "entry")
  /\ LET new == getNewName(nextName, names)
     IN  /\ names' = new.names
         /\ nextName' = new.nextName
         /\ issued' = Append(issued, new.name)
         /\ controlFlowStack' =
              push_back(controlFlowStack, Scope("Loop", new.name, Top.type))
         /\ Call([Top EXCEPT !.pc = "body", !.name = new.name],
                 MakeFrame(Top.type))
  /\ UNCHANGED << fixed, noise, limit, walk, walked, bodyLabels,
                  curr, orig >>

\* makeLoop(type): builder.makeLoop(name, make(type)); pop_back(); return ret;
MakeLoopBody ==
  /\ Running("makeLoop", "body")
  /\ controlFlowStack' = pop_back(controlFlowStack)
  /\ Return(builderMakeLoop(Top.name, ret))
  /\ UNCHANGED << fixed, noise, limit, names, nextName, walk, walked,
                  bodyLabels, issued, curr, orig >>

(***************************************************************************)
(* makeBreak.                                                              *)
(***************************************************************************)
\* makeBreak(value, condition)
MakeBreak ==
  /\ Running("makeBreak", "entry")
  /\ IF BreakTargetPicks(Top.value, controlFlowStack)
       THEN CanDraw /\ noise' = Advance(noise)
       ELSE noise' = noise
  /\ \E d \in Drawn :
       LET target == getBreakTarget(Top.value, controlFlowStack, d)
       IN  IF IsName(target)
             THEN Return(builderMakeBreak(target, Top.value, Top.condition))
             ELSE Return(Unreachable)
  /\ UNCHANGED << fixed, limit, names, nextName, controlFlowStack,
                  walk, walked, bodyLabels, issued, curr, orig >>

(***************************************************************************)
(* makeCall, makeCallImport and makeCallIndirect.                          *)
(***************************************************************************)
\* for (auto param : ...) args.push_back(make(param)); and the return
NextArgument(call) ==
  IF Len(call.args) < Len(call.params)
    THEN Call([call EXCEPT !.pc = "args"],
              MakeFrame(call.params[Len(call.args) + 1]))
  ELSE IF call.fn = "makeCall"
    THEN Return(builderMakeCall(call.callee, call.args, call.type))
  ELSE IF call.fn = "makeCallImport"
    THEN Return(builderMakeCallImport(call.callee, call.args, call.type))
  ELSE Call([call EXCEPT !.pc = "target"], CreatorFrame("makeInt32", "i32"))

\* a call constructor from its entry, with the candidates it collected and
\* the field of the chosen one the call names: func->name, func->type
CallOneOf(candidates, calleeOf) ==
  IF Len(candidates) = 0
    THEN /\ Return(Unreachable)
         /\ noise' = noise
    ELSE /\ CanDraw
         /\ noise' = Advance(noise)
         /\ \E d \in Drawn :
              LET chosen == candidates[pick(d, Len(candidates)) + 1]
              IN  NextArgument([Top EXCEPT !.callee = chosen[calleeOf],
                                           !.params = chosen.params])

\* makeCall(type), up to the first argument
MakeCall ==
  /\ Running("makeCall", "entry")
  /\ CallOneOf(CallCandidates(module, Top.type), "name")
  /\ UNCHANGED << fixed, limit, names, nextName, controlFlowStack,
                  walk, walked, bodyLabels, issued, curr, orig >>

\* makeCallImport(type), up to the first argument
MakeCallImport ==
  /\ Running("makeCallImport", "entry")
  /\ CallOneOf(ImportCandidates(module, Top.type), "name")
  /\ UNCHANGED << fixed, limit, names, nextName, controlFlowStack,
                  walk, walked, bodyLabels, issued, curr, orig >>

\* makeCallIndirect(type), up to the first argument
MakeCallIndirect ==
  /\ Running("makeCallIndirect", "entry")
  /\ IF ~ module.table.exists
       THEN /\ Return(Unreachable)
            /\ noise' = noise
       ELSE CallOneOf(IndirectCandidates(module, Top.type),
                      "type")
  /\ UNCHANGED << fixed, limit, names, nextName, controlFlowStack,
                  walk, walked, bodyLabels, issued, curr, orig >>

\* a call constructor, once make(param) has returned
CallArgument ==
  /\ frames # << >>
  /\ Top.fn \in {"makeCall", "makeCallImport", "makeCallIndirect"}
  /\ Top.pc = "args"
  /\ NextArgument([Top EXCEPT !.args = Append(@, ret.type)])
  /\ UNCHANGED << fixed, noise, limit, names, nextName,
                  controlFlowStack, walk, walked, bodyLabels, issued, curr,
                  orig >>

\* makeCallIndirect, once makeInt32() has returned the target
CallIndirectTarget ==
  /\ Running("makeCallIndirect", "target")
  /\ Return(builderMakeCallIndirect(Top.callee, ret, Top.args, Top.type))
  /\ UNCHANGED << fixed, noise, limit, names, nextName,
                  controlFlowStack, walk, walked, bodyLabels, issued, curr,
                  orig >>

(***************************************************************************)
(* The creators make calls that Fuzz.cpp does not define: makeInt64,       *)
(* makeFloat32, makeFloat64, makeNone and makeUnreachable.  They follow    *)
(* the design the pass is written to: the budget is consumed first, then   *)
(* one production that can yield the type is chosen with one draw.         *)
(***************************************************************************)
NumberCreators == {"makeInt64", "makeFloat32", "makeFloat64"}

\* the productions that yield a value of a numeric type
NumberProductions ==
  << "BlockId", "IfId", "LoopId", "BreakId", "CallId", "CallImportId",
     "CallIndirectId", "ConstId" >>

\* the productions that yield no value
NoneProductions == << "BlockId", "LoopId", "NopId" >>

\* the production a draw selects: the draw reduced modulo the number of
\* productions
Selected(productions, d) == productions[(d % Len(productions)) + 1]

\* one production for a type
Production(id, type) ==
  CASE id = "BlockId" -> Become(BlockFrame(type))
    [] id = "IfId" -> Become(OperandsFrame("IfId", type, << "i32", type, type >>))
    [] id = "LoopId" -> Become(LoopFrame(type))
    [] id = "BreakId" -> Become(OperandsFrame("BreakId", type, << type, "i32" >>))
    [] id = "CallId" -> Become(CallFrame("makeCall", type))
    [] id = "CallImportId" -> Become(CallFrame("makeCallImport", type))
    [] id = "CallIndirectId" -> Become(CallFrame("makeCallIndirect", type))
    [] OTHER -> Return(Node(id, type, NoName, << >>))

\* makeInt64(), makeFloat32(), makeFloat64()
MakeNumber ==
  /\ frames # << >>
  /\ Top.fn \in NumberCreators
  /\ Top.pc = "entry"
  /\ limit' = Decrement(limit)
  /\ IF limit' = 0
       THEN /\ Return(Unreachable)
            /\ noise' = noise
       ELSE /\ CanDraw
            /\ noise' = Advance(noise)
            /\ \E d \in Drawn :
                 Production(Selected(NumberProductions, d), Top.type)
  /\ UNCHANGED << fixed, names, nextName, controlFlowStack, walk,
                  walked, bodyLabels, issued, curr, orig >>

\* makeNone()
MakeNone ==
  /\ Running("makeNone", "entry")
  /\ limit' = Decrement(limit)
  /\ IF limit' = 0
       THEN /\ Return(Unreachable)
            /\ noise' = noise
       ELSE /\ CanDraw
            /\ noise' = Advance(noise)
            /\ \E d \in Drawn :
                 Production(Selected(NoneProductions, d), "none")
  /\ UNCHANGED << fixed, names, nextName, controlFlowStack, walk,
                  walked, bodyLabels, issued, curr, orig >>

\* makeUnreachable()
MakeUnreachable ==
  /\ Running("makeUnreachable", "entry")
  /\ Return(Unreachable)
  /\ UNCHANGED << fixed, noise, limit, names, nextName,
                  controlFlowStack, walk, walked, bodyLabels, issued, curr,
                  orig >>

(***************************************************************************)
(* The pass.                                                               *)
(***************************************************************************)
Next ==
  \/ DoWalkFunction
  \/ VisitExpression
  \/ VisitReplace
  \/ FinishWalk
  \/ Make
  \/ MakeReplace
  \/ MakeInt32
  \/ EvalOperand
  \/ OperandReturn
  \/ MakeBlock
  \/ MakeBlockList
  \/ MakeBlockLast
  \/ MakeLoop
  \/ MakeLoopBody
  \/ MakeBreak
  \/ MakeCall
  \/ MakeCallImport
  \/ MakeCallIndirect
  \/ CallArgument
  \/ CallIndirectTarget
  \/ MakeNumber
  \/ MakeNone
  \/ MakeUnreachable

Spec == Init /\ [][Next]_vars

(***************************************************************************)
(* makeBreak on its own: makeBreak(value, condition) called with any value *)
(* (or none), any condition and any stack of up to MaxScopes enclosing     *)
(* scopes, named or not, as the walker and the creators can leave it.      *)
(***************************************************************************)
MaxScopes == 2

ScopeSamples ==
  {Scope(kind, name, type) :
     kind \in {"Block", "Loop", "If"},
     name \in {NoName, FuzzName(0), FuzzName(1)},
     type \in {"i32", "none"}}

ScopeStacks == UNION {[1..n -> ScopeSamples] : n \in 0..MaxScopes}

BreakValues ==
  {Null, Unreachable, Node("ConstId", "i32", NoName, << >>),
   Node("ConstId", "i64", NoName, << >>)}

BreakConditions == {Unreachable, Node("ConstId", "i32", NoName, << >>)}

BreakInit ==
  /\ module = ModuleEmpty
  /\ budget = 1
  /\ limit = budget
  /\ seed = AnyGenerator
  /\ noise = seed
  /\ names = {}
  /\ nextName = 0
  /\ controlFlowStack \in ScopeStacks
  /\ walk = "visiting"
  /\ walked = 0
  /\ bodyLabels = {}
  /\ issued = << >>
  /\ curr = Original("i32")
  /\ orig = "i32"
  /\ \E value \in BreakValues, condition \in BreakConditions :
       frames = << BreakFrame(value, condition) >>
  /\ ret = Null
  /\ first = << >>

SpecBreak == BreakInit /\ [][MakeBreak]_vars

(***************************************************************************)
(* The pass, and makeBreak called under scopes that enclose the visited    *)
(* node.  Those scopes are the walker's, to pop when it leaves them: the   *)
(* walk goes on only where the visit left no scope on the stack.           *)
(***************************************************************************)
PickInit == Init \/ BreakInit

PickNext == (frames = << >> => controlFlowStack = << >>) /\ Next

SpecPick == PickInit /\ [][PickNext]_vars

(***************************************************************************)
(* The pass up to its first visit, with the value the generator hands to   *)
(* the visit written out.                                                  *)
(***************************************************************************)
VisitInit ==
  /\ module \in Modules
  /\ budget \in Budgets
  /\ limit = budget
  /\ seed \in {Generator(<< d >>) : d \in Draws}
  /\ noise = seed
  /\ names = {}
  /\ nextName = 0
  /\ controlFlowStack = << >>
  /\ walk = "idle"
  /\ walked = 0
  /\ bodyLabels = {}
  /\ issued = << >>
  /\ curr = Null
  /\ orig = "none"
  /\ frames = << >>
  /\ ret = Null
  /\ first = << >>

VisitNext ==
  \/ DoWalkFunction
  \/ VisitExpression
  \/ Make
  \/ VisitReplace
  \/ FinishWalk

SpecVisit == VisitInit /\ [][VisitNext]_vars

(***************************************************************************)
(* The pass run twice: over the same module, a function whose body is one  *)
(* node, constructed with the same budget and the same seed, so that the   *)
(* generator hands out the same sequence of MaxAhead values in both runs.  *)
(* The creators of the runs are those that need no function to call.       *)
(***************************************************************************)
MaxAhead == 5

\* values that between them select every production of the creators
SeedDraws == {0, 7, 9, 11, 24}

Seeds == {Generator(ahead) : ahead \in [1..MaxAhead -> SeedDraws]}

TwiceInit ==
  /\ module = ModuleEmpty
  /\ budget \in Budgets
  /\ limit = budget
  /\ seed \in Seeds
  /\ noise = seed
  /\ names = {}
  /\ nextName = 0
  /\ controlFlowStack = << >>
  /\ walk = "idle"
  /\ walked = 0
  /\ bodyLabels = {}
  /\ issued = << >>
  /\ curr = Null
  /\ orig = "none"
  /\ frames = << >>
  /\ ret = Null
  /\ first = << >>

\* doWalkFunction for the one function, which the second run finds as the
\* first run found it
WalkSameFunction ==
  /\ walked = 0
  /\ DoWalkFunction
  /\ first # << >> => bodyLabels' = bodyLabels

\* visitExpression for the one node of the body, which the second run finds
\* as the first run found it
VisitSameBody ==
  /\ walk = "entered"
  /\ VisitExpression
  /\ first # << >> => orig' = orig

\* the first run is over: its output and the draws it made are kept, and the
\* pass is constructed again as it was, Fuzz() : noise(42), limit(LIMIT)
RunAgain ==
  /\ walk = "idle"
  /\ walked = 1
  /\ first = << >>
  /\ first' = << [body |-> curr, noise |-> noise] >>
  /\ limit' = budget
  /\ noise' = seed
  /\ names' = {}
  /\ nextName' = 0
  /\ walked' = 0
  /\ issued' = << >>
  /\ curr' = Null
  /\ ret' = Null
  /\ UNCHANGED << module, budget, seed, controlFlowStack, walk, bodyLabels,
                  orig, frames >>

TwiceNext ==
  \/ WalkSameFunction
  \/ VisitSameBody
  \/ VisitReplace
  \/ FinishWalk
  \/ RunAgain
  \/ Make
  \/ MakeReplace
  \/ MakeInt32
  \/ EvalOperand
  \/ OperandReturn
  \/ MakeBlock
  \/ MakeBlockList
  \/ MakeBlockLast
  \/ MakeLoop
  \/ MakeLoopBody
  \/ MakeBreak
  \/ MakeNumber
  \/ MakeNone
  \/ MakeUnreachable

SpecTwice == TwiceInit /\ [][TwiceNext]_vars

(***************************************************************************)
(* Claims.                                                                 *)
(***************************************************************************)
\* the budget counter has reached zero: it is zero or has wrapped below it
Exhausted == limit = 0 \/ UnsignedLess(budget, limit)

\* the executing call is at the entry of fn
Entering(fn) == Running(fn, "entry")

\* C1: a call of make, at whatever depth, performs at most B node-creation
\* steps before it returns, B the budget the pass was constructed with: for
\* every active call of make the budget has been decremented at most B times
\* since the call began.
C1_StepsWithinBudget ==
  \A i \in 1..Len(frames) :
    frames[i].fn = "make" => frames[i].start - limit <= budget

\* C2: once limit has reached zero, every later call of make or makeInt32
\* returns a terminal unreachable node at once (and so creates no Block, Loop,
\* If, Break or call).
C2_ExhaustionIsPermanent ==
  [][(Exhausted /\ (Entering("make") \/ Entering("makeInt32")))
       => (frames' = Callers /\ ret' = Unreachable)]_vars

\* C3: the node visitExpression puts in place of a visited node has the
\* static type the visited node had.
C3_TypePreserved ==
  (walk = "walking" /\ curr.id # "Original") => curr.type = orig

\* C4: a Break that makeBreak returns targets a label on the control-flow
\* stack; with a value the target is a Block of the value's type, without a
\* value it is a Loop or a Block of type none.
C4_BreakIsLegal ==
  ret.id = "BreakId" =>
    \E i \in 1..Len(controlFlowStack) :
      LET scope == controlFlowStack[i]
      IN  /\ scope.name = ret.name
          /\ IF ret.kids[1] # Null.type
               THEN scope.kind = "Block" /\ scope.type = ret.kids[1]
               ELSE \/ scope.kind = "Loop"
                    \/ scope.kind = "Block" /\ scope.type = "none"

\* C5: within one function's pass, every label getNewName returned differs
\* from every label the body held before and from every label it returned
\* earlier.
C5_FreshLabels ==
  \A i \in 1..Len(issued) :
    /\ issued[i] \notin bodyLabels
    /\ \A j \in 1..Len(issued) : i # j => issued[i] # issued[j]

\* a second function, whose body holds fuzz$0, got a fresh label while the
\* registry also held a label issued for the first function
C5_Witness ==
  /\ walked = 1
  /\ issued # << >>
  /\ FuzzName(0) \in bodyLabels
  /\ \E name \in names :
       name \notin bodyLabels /\ \A i \in 1..Len(issued) : issued[i] # name

\* C6: when doWalkFunction has finished a function the control-flow stack is
\* empty, and its assertion never fails.
C6_StackBalanced ==
  /\ walk # "aborted"
  /\ walk = "idle" => controlFlowStack = << >>

\* a function is finished in which a scope was pushed and popped
C6_Witness == walk = "idle" /\ walked >= 1 /\ issued # << >>

\* C7: two runs of the pass over the same module, with the same seed and the
\* same budget, make the same sequence of draws and leave the same body,
\* whatever order the operands of a node are synthesized in.
C7_Deterministic ==
  (first # << >> /\ walk = "idle" /\ walked = 1)
    => (curr = first[1].body /\ noise = first[1].noise)

\* C8: make(i32) entered with a budget of exactly 1 returns a terminal
\* unreachable node, and on that path nothing is drawn, no label is issued
\* and nothing is pushed.
C8_BudgetOfOne ==
  [][(Entering("make") /\ Top.type = "i32" /\ limit = 1)
       => /\ ret' = Unreachable
          /\ frames' = Callers
          /\ UNCHANGED << noise, names, nextName, issued, controlFlowStack >>]_vars

\* visitExpression called make(i32) with a budget of 1 and make has returned
C8_Witness ==
  /\ budget = 1
  /\ limit = 0
  /\ walk = "visiting"
  /\ orig = "i32"
  /\ frames = << >>
  /\ ret = Unreachable
  /\ noise.count = 1

\* no function of the module has the result type
NoFunction(type) ==
  \A i \in 1..Len(module.functions) : module.functions[i].result # type

\* no function import of the module has the result type
NoFunctionImport(type) ==
  \A i \in 1..Len(module.imports) :
    ~ (module.imports[i].kind = "Function" /\ module.imports[i].result = type)

\* the table does not exist or none of its entries has the result type
NoTableEntry(type) ==
  \/ ~ module.table.exists
  \/ \A s \in 1..Len(module.table.segments) :
       \A e \in 1..Len(module.table.segments[s]) :
         getFunction(module, module.table.segments[s][e]).result # type

\* C9: a call constructor that finds no callee of the required result type
\* returns a terminal unreachable node, makes no call node, synthesizes no
\* argument and does not call pick.
C9_NoCallCandidate ==
  [][(\/ Entering("makeCall") /\ NoFunction(Top.type)
      \/ Entering("makeCallImport") /\ NoFunctionImport(Top.type)
      \/ Entering("makeCallIndirect") /\ NoTableEntry(Top.type))
       => /\ ret' = Unreachable
          /\ frames' = Callers
          /\ UNCHANGED << noise, limit >>]_vars

\* makeCallIndirect is entered for a type no entry of the existing table has,
\* in a module that has functions and imports of other result types
C9_Witness ==
  /\ Entering("makeCallIndirect")
  /\ module.table.exists
  /\ NoTableEntry(Top.type)
  /\ NoFunction(Top.type)
  /\ NoFunctionImport(Top.type)

\* the stack holds no named scope a break with this value may target: no
\* named Block of the value's type for a break with a value, no named Block
\* or Loop at all for a break without one
NoBreakTarget(value, stack) ==
  \A i \in 1..Len(stack) :
    \/ ~ IsName(stack[i].name)
    \/ stack[i].kind \notin {"Block", "Loop"}
    \/ value # Null /\ (stack[i].kind = "Loop" \/ stack[i].type # value.type)

NodeCreators ==
  {"make", "makeInt32", "makeBlock", "makeLoop", "makeBreak", "makeCall",
   "makeCallImport", "makeCallIndirect"}

\* C11: every function that creates a node decrements the budget before it
\* creates a node or calls another creator, and when that decrement brings the
\* budget to zero it returns a terminal unreachable node at once.
C11_ConsumeFirst ==
  [][(\E fn \in NodeCreators : Entering(fn))
       => /\ limit' = Decrement(limit)
          /\ limit' = 0 => (ret' = Unreachable /\ frames' = Callers)]_vars

\* C12: pick(bound) returns the draw modulo the bound, so that every value
\* below the bound is returned for some draw: the size makeBlock computes as
\* pick(5) + 1 is the value the generator hands out, modulo 5, plus 1.
C12_PickIsModulo ==
  [][Entering("makeBlock")
       => frames'[Len(frames)].size = (Head(noise.ahead) % 5) + 1]_vars

\* C13: the budget counter is never reset between functions (no step of the
\* walk outside the creators changes it, so a function starts with the value
\* the function before it ended with), and within a run its value only ever
\* decreases.
C13_BudgetOnlyDecreases ==
  [][/\ (frames = << >> /\ frames' = << >>) => limit' = limit
     /\ ~ UnsignedLess(limit, limit')]_vars

\* the call has pushed its scope and not yet popped it
IsOpen(frame) ==
  \/ frame.fn = "makeBlock" /\ frame.pc \in {"list", "last"}
  \/ frame.fn = "makeLoop" /\ frame.pc = "body"

\* the scopes of the calls that are synthesizing a body, outermost first
OpenScopes ==
  LET open == SelectSeq(frames, IsOpen)
  IN  [i \in 1..Len(open) |->
         Scope(IF open[i].fn = "makeBlock" THEN "Block" ELSE "Loop",
               open[i].name, open[i].type)]

\* C14: every call of make, makeBlock and makeLoop leaves the control-flow
\* stack as it found it, on every path: the stack holds exactly the scopes of
\* the calls of makeBlock and makeLoop that are synthesizing their body, each
\* above the scopes that enclose it, so that it is pushed before the body and
\* popped right after.
C14_StackDiscipline == controlFlowStack = OpenScopes

\* a loop is being synthesized in the body of another
C14_Witness ==
  /\ Len(controlFlowStack) = 2
  /\ controlFlowStack[1].name # controlFlowStack[2].name
  /\ Entering("make")

\* the call made for the next statement of the block asks for type none
\* unless the statement is the last, which is asked for in the block's type
RequiredOf(block, callee) ==
  IF Len(block.list) + 1 < block.size
    THEN callee.fn = "makeNone" /\ callee.type = "none"
    ELSE callee.fn = "make" /\ callee.type = block.type

\* C15: makeBlock(type) returns a Block of type `type` under a fresh label
\* with 1 to 5 statements, of which every one but the last is synthesized
\* with required type none and the last with required type `type`.
C15_BlockShape ==
  [][/\ Entering("makeBlock") =>
          LET block == frames'[Len(frames)]
          IN  /\ block.type = Top.type
              /\ block.size \in 1..5
              /\ IsName(block.name)
              /\ block.name \notin names
              /\ block.list = << >>
              /\ RequiredOf(block, frames'[Len(frames) + 1])
     /\ Running("makeBlock", "list") =>
          LET block == frames'[Len(frames)]
          IN  /\ block.type = Top.type
              /\ block.size = Top.size
              /\ block.name = Top.name
              /\ Len(block.list) = Len(Top.list) + 1
              /\ RequiredOf(block, frames'[Len(frames) + 1])
     /\ Running("makeBlock", "last") =>
          /\ frames' = Callers
          /\ ret'.id = "BlockId"
          /\ ret'.type = Top.type
          /\ ret'.name = Top.name
          /\ Len(ret'.kids) = Top.size]_vars

\* makeBlock(i32) has returned a block of two statements
C15_Witness ==
  /\ ret.id = "BlockId"
  /\ ret.type = "i32"
  /\ Len(ret.kids) = 2
  /\ ret.name \in names

\* the scopes a break may target: with a value, the named Blocks of the
\* value's type; without one, the named Loops
Admissible(value, stack) ==
  {stack[i] : i \in
     {j \in 1..Len(stack) :
        /\ IsName(stack[j].name)
        /\ IF value # Null
             THEN stack[j].kind = "Block" /\ stack[j].type = value.type
             ELSE stack[j].kind = "Loop"}}

\* C16: the candidates getBreakTarget collects are exactly the named Blocks
\* of the value's type for a break with a value (never a Loop) and exactly
\* the named Loops for a break without one, and the target it returns is one
\* of them.
C16_ExactCandidates ==
  [][Entering("makeBreak") =>
       LET found == BreakBlocks(Top.value, controlFlowStack)
                      \o BreakLoops(Top.value, controlFlowStack)
       IN  /\ {found[i] : i \in 1..Len(found)}
                = Admissible(Top.value, controlFlowStack)
           /\ ret'.id = "BreakId" =>
                \E scope \in Admissible(Top.value, controlFlowStack) :
                  scope.name = ret'.name]_vars

CallConstructors == {"makeCall", "makeCallImport", "makeCallIndirect"}

\* the module declares a callee of this kind under the name, with the result
\* and the parameters
Declared(fn, name, result, params) ==
  IF fn = "makeCallImport"
    THEN \E i \in 1..Len(module.imports) :
           /\ module.imports[i].kind = "Function"
           /\ module.imports[i].name = name
           /\ module.imports[i].result = result
           /\ module.imports[i].params = params
    ELSE \E i \in 1..Len(module.functions) :
           /\ IF fn = "makeCall"
                THEN module.functions[i].name = name
                ELSE IsName(name) /\ module.functions[i].type = name
           /\ module.functions[i].result = result
           /\ module.functions[i].params = params

\* the constructor that builds a node of the id
ConstructorOf(id) ==
  CASE id = "CallId" -> "makeCall"
    [] id = "CallImportId" -> "makeCallImport"
    [] id = "CallIndirectId" -> "makeCallIndirect"

Pickers ==
  {"makeInt32", "makeBlock", "makeBreak", "makeCall", "makeCallImport",
   "makeCallIndirect"}

\* the bound the executing creator passes to pick, if it gets that far
PickBound ==
  CASE Top.fn = "makeInt32" -> NumExpressionIds
    [] Top.fn = "makeBlock" -> 5
    [] Top.fn = "makeBreak" ->
         Len(BreakBlocks(Top.value, controlFlowStack))
           + Len(BreakLoops(Top.value, controlFlowStack))
    [] Top.fn = "makeCall" -> Len(CallCandidates(module, Top.type))
    [] Top.fn = "makeCallImport" -> Len(ImportCandidates(module, Top.type))
    [] Top.fn = "makeCallIndirect" -> Len(IndirectCandidates(module, Top.type))

\* C18: pick is only ever called with a bound of at least 1: a creator that
\* draws for a pick among candidates has found at least one candidate, the
\* empty list having made it return before.
C18_PickBoundPositive ==
  [][(\E fn \in Pickers : Entering(fn)) /\ noise'.count # noise.count
       => PickBound >= 1]_vars

\* makeBreak has picked its target among the scopes on the stack
C18_Witness ==
  /\ ret.id = "BreakId"
  /\ noise.count = 1
  /\ controlFlowStack # << >>

\* C19: a visit whose chance(5) is false, the generator handing out a value
\* that is 5 or more modulo 100, changes nothing but the generator: the node
\* is not replaced, the budget is not decremented, no label is issued, the
\* control-flow stack is not touched, and exactly one value is drawn.
C19_VisitWithoutChance ==
  [][(/\ walk = "entered"
      /\ frames = << >>
      /\ noise.ahead # << >>
      /\ Head(noise.ahead) % 100 >= 5)
       => /\ frames' = << >>
          /\ walk' = "walking"
          /\ curr'.id = "Original"
          /\ curr'.type = orig'
          /\ noise'.count = noise.count + 1
          /\ noise'.ahead = Tail(noise.ahead)
          /\ UNCHANGED << limit, names, nextName, issued, controlFlowStack,
                          ret >>]_vars

\* a node was visited with the generator handing out 5, the least value for
\* which chance(5) is false
C19_Witness ==
  /\ seed.ahead = << 5 >>
  /\ noise.count = 1
  /\ walk = "walking"
  /\ curr.id = "Original"
  /\ limit = budget

====
